---- MODULE Spec2Model ----
(***************************************************************************)
(* Model of geojson_split_zip.py: one Streamlit script run over an         *)
(* uploaded file.  The script is a sequential program; the actions are its *)
(* successive sections (load, filter, export section, one turn of the      *)
(* export loop, download button) and `pc` is the position of the run.      *)
(* Widget return values (selected filter columns and values, split column, *)
(* button state) are inputs read by the section that calls the widget.     *)
(*                                                                         *)
(* Strings are sequences of one-character strings, so that substring       *)
(* tests, joins and character replacement are computed, not assumed.       *)
(* Attribute values are tagged records [t, v].  Python dict objects held   *)
(* in a DataFrame cell are heap objects: the cell holds a reference and    *)
(* `heap` holds the dict, because DataFrame.copy() and row selection copy  *)
(* the reference, not the dict.                                            *)
(***************************************************************************)
EXTENDS Integers, Sequences, FiniteSets, TLC

VARIABLES
    file,             \* uploaded_file: [fmt, cols, rows]
    pc,               \* position of the script run
    gdf,              \* [cols, rows], the GeoDataFrame built by the loader
    heap,             \* dict objects referenced from cells
    selected_values,  \* sequence of [col, vals] in dict insertion order
    filtered_gdf,     \* rows of gdf that passed the filters
    count,            \* number shown by "Filtered features: n" (-1: not shown)
    split_col,        \* value returned by the selectbox
    todo,             \* values of the export loop not yet visited
    subset_copy,      \* rows of the loop's subset_copy after conversion
    rawname,          \* `filename` as built at lines 166-169
    filename,         \* `filename` after cleaning, lines 172-176
    zf,               \* members written to the ZipFile, in order
    download,         \* the blobs st.download_button was given
    err               \* what st.error was given

vars == <<file, pc, gdf, heap, selected_values, filtered_gdf, count, split_col,
          todo, subset_copy, rawname, filename, zf, download, err>>

----------------------------------------------------------------------------
(* Bounds of the model *)

MaxRows == 2

----------------------------------------------------------------------------
(* Attribute values *)

Null == [t |-> "null", v |-> <<>>]
StrV(s) == [t |-> "str", v |-> s]
IntV(n) == [t |-> "int", v |-> n]
TsV(d) == [t |-> "ts", v |-> d]
DictV(f) == [t |-> "dict", v |-> f]
ListV(s) == [t |-> "list", v |-> s]
Ref(id) == [t |-> "ref", v |-> id]
Geometry == [t |-> "geom", v |-> <<>>]

\* `download` is the sequence of blobs handed to st.download_button
NoBlob == <<>>
NoName == <<>>

----------------------------------------------------------------------------
(* String helpers *)

UpperCase == <<"A","B","C","D","E","F","G","H","I","J","K","L","M",
               "N","O","P","Q","R","S","T","U","V","W","X","Y","Z">>
LowerCase == <<"a","b","c","d","e","f","g","h","i","j","k","l","m",
               "n","o","p","q","r","s","t","u","v","w","x","y","z">>

LowerChar(c) ==
    IF \E i \in 1..26 : UpperCase[i] = c
    THEN LowerCase[CHOOSE i \in 1..26 : UpperCase[i] = c]
    ELSE c

\* str.lower()
Lower(s) == [i \in 1..Len(s) |-> LowerChar(s[i])]

\* `sub in s`
Contains(s, sub) ==
    \E i \in 1..(Len(s) - Len(sub) + 1) : SubSeq(s, i, i + Len(sub) - 1) = sub

\* str.replace(ch, rep) for a one-character pattern
RECURSIVE Replace(_, _, _)
Replace(s, ch, rep) ==
    IF s = <<>> THEN <<>>
    ELSE (IF Head(s) = ch THEN rep ELSE <<Head(s)>>) \o Replace(Tail(s), ch, rep)

\* sep.join(parts)
RECURSIVE Join(_, _)
Join(sep, parts) ==
    IF parts = <<>> THEN <<>>
    ELSE IF Len(parts) = 1 THEN parts[1]
    ELSE parts[1] \o sep \o Join(sep, Tail(parts))

DigitChars == <<"0","1","2","3","4","5","6","7","8","9">>

RECURSIVE Digits(_)
Digits(n) ==
    IF n < 10 THEN <<DigitChars[n + 1]>>
    ELSE Digits(n \div 10) \o <<DigitChars[(n % 10) + 1]>>

\* Timestamp.isoformat() of day d of January 2020, midnight
IsoFormat(d) ==
    <<"2","0","2","0","-","0","1","-">> \o (IF d < 10 THEN <<"0">> ELSE <<>>)
    \o Digits(d) \o <<"T","0","0",":","0","0",":","0","0">>

\* str() of a datetime64 cell (Series.astype(str))
DateStr(d) ==
    <<"2","0","2","0","-","0","1","-">> \o (IF d < 10 THEN <<"0">> ELSE <<>>)
    \o Digits(d)

\* str(v) as used by the f-strings and by '_'.join(str(v) ...)
StrOf(x) ==
    CASE x.t = "str" -> x.v
      [] x.t = "int" -> Digits(x.v)
      [] x.t = "ts" -> DateStr(x.v) \o <<" ","0","0",":","0","0",":","0","0">>
      [] OTHER -> <<"n","a","n">>

----------------------------------------------------------------------------
(* convert_timestamps_in_properties, lines 15-25.  The dict is changed in  *)
(* place and returned; the operator gives the dict's content afterwards.   *)

IsTimestamp(x) == x.t = "ts"

RECURSIVE convert_timestamps_in_properties(_)
ConvertItem(x) ==
    CASE IsTimestamp(x) -> StrV(IsoFormat(x.v))
      [] x.t = "dict" -> convert_timestamps_in_properties(x)
      [] x.t = "list" ->
            ListV([i \in 1..Len(x.v) |->
                     IF x.v[i].t = "dict"
                     THEN convert_timestamps_in_properties(x.v[i])
                     ELSE x.v[i]])
      [] OTHER -> x

convert_timestamps_in_properties(properties) ==
    IF properties.t = "dict"
    THEN DictV([key \in DOMAIN properties.v |-> ConvertItem(properties.v[key])])
    ELSE properties

\* a timestamp-typed value occurs in x, at any depth
RECURSIVE HasTimestamp(_)
HasTimestamp(x) ==
    CASE x.t = "ts" -> TRUE
      [] x.t = "dict" -> \E key \in DOMAIN x.v : HasTimestamp(x.v[key])
      [] x.t = "list" -> \E i \in 1..Len(x.v) : HasTimestamp(x.v[i])
      [] OTHER -> FALSE

----------------------------------------------------------------------------
(* Table helpers (pandas operations used by the script) *)

Deref(cell, h) == IF cell.t = "ref" THEN h[cell.v] ELSE cell

\* the rows with every dict reference replaced by the dict's current content
View(rows, h) ==
    [i \in 1..Len(rows) |-> [j \in 1..Len(rows[i]) |-> Deref(rows[i][j], h)]]

ColIndex(cols, c) == CHOOSE j \in 1..Len(cols) : cols[j] = c

Column(rows, j) == [i \in 1..Len(rows) |-> rows[i][j]]

Range(s) == {s[i] : i \in 1..Len(s)}

\* the dtype pandas gives a column holding these cells
Dtype(cells) ==
    IF cells # <<>> /\ \A i \in 1..Len(cells) : cells[i].t = "int"
        THEN "int64"
    ELSE IF (\A i \in 1..Len(cells) : cells[i].t \in {"ts", "null"})
            /\ (\E i \in 1..Len(cells) : cells[i].t = "ts")
        THEN "datetime64[ns]"
    ELSE IF cells # <<>> /\ \A i \in 1..Len(cells) : cells[i].t = "geom"
        THEN "geometry"
    ELSE "object"

\* dict and list cells are unhashable: unique() raises TypeError on them
Hashable(cells) == \A i \in 1..Len(cells) : cells[i].t \notin {"ref", "dict", "list"}

\* Series.unique(): distinct values in order of first appearance, null included
RECURSIVE Unique(_)
Unique(cells) ==
    IF cells = <<>> THEN <<>>
    ELSE LET rest == Unique(SubSeq(cells, 1, Len(cells) - 1))
             last == cells[Len(cells)]
         IN IF last \in Range(rest) THEN rest ELSE Append(rest, last)

\* elementwise `cell == value`: a null never compares equal, not even to null
PyEq(cell, value) == cell.t # "null" /\ value.t # "null" /\ cell = value

\* variant of IsIn: only the first selected value is compared
IsInFirstOnly(cell, vals) == vals # <<>> /\ PyEq(cell, vals[1])

\* Series.isin(vals): a null cell is not in a list of non-null values
IsIn(cell, vals) == \E i \in 1..Len(vals) : PyEq(cell, vals[i])

\* gdf[col].dropna().unique(): the options offered by a filter multiselect
Options(rows, j) ==
    {x \in Range(Unique(Column(rows, j))) : x.t # "null"}

\* sequences of distinct elements of S (a multiselect's possible return values)
Picks(S) ==
    {s \in UNION {[1..n -> S] : n \in 0..Cardinality(S)} :
        \A a, b \in 1..Len(s) : a # b => s[a] # s[b]}

----------------------------------------------------------------------------
(* Uploaded files.  The frames the loaders can return are taken over the    *)
(* attribute values the script itself distinguishes: strings, integers,    *)
(* nulls, timestamps, dicts and lists (lines 17-24, 62, 148).  Column      *)
(* names and string values carry the characters the filename cleaning is   *)
(* about; one name holds "geom" in mixed case.                             *)

ColK == <<"k", "'", "\"">>
ColN == <<"n", "\\">>
ColP == <<"p">>
ColGeom == <<"G", "e", "o", "m">>
GeometryCol == <<"g", "e", "o", "m", "e", "t", "r", "y">>

Wkt == StrV(<<"P", "O", "I", "N", "T", " ", "(", "0", " ", "0", ")">>)

KVals == {StrV(<<"A", "/", "B">>), StrV(<<"A", " ", "B">>), Null}
NVals == {IntV(1), IntV(12)}
PVals == {Null,
          TsV(1),
          DictV([t |-> TsV(1), d |-> DictV([t |-> TsV(2)])]),
          DictV([l |-> ListV(<<TsV(1), DictV([t |-> TsV(2)])>>)])}

ColVals(c) ==
    CASE c = ColK -> KVals
      [] c = ColN -> NVals
      [] c = ColP -> PVals
      [] c = ColGeom -> {Wkt}

\* all rows over the columns cols
RECURSIVE RowsOver(_)
RowsOver(cols) ==
    IF cols = <<>> THEN {<<>>}
    ELSE {<<x>> \o r : x \in ColVals(Head(cols)), r \in RowsOver(Tail(cols))}

TablesOver(cols, n) == UNION {[1..m -> RowsOver(cols)] : m \in 1..n}

\* property columns of feature collections; columns of tabular inputs
FeatureSchemas == {<<ColK, ColN>>, <<ColK, ColP>>}
TabularSchemas == {<<ColK, ColGeom>>, <<ColK>>}

FilesOf(fmts, schemas, n) ==
    UNION {{[fmt |-> f, cols |-> c, rows |-> r] : f \in fmts, r \in TablesOver(c, n)} :
              c \in schemas}

Files ==
    FilesOf({"geojson", "json_fc"}, FeatureSchemas, MaxRows)
    \cup FilesOf({"json_list", "csv"}, TabularSchemas, MaxRows)
    \cup FilesOf({"json_obj"}, TabularSchemas, 1)

----------------------------------------------------------------------------
(* Format loader, lines 29-58 *)

EmptyFrame == [cols |-> <<>>, rows |-> <<>>]

RefId(f, i, j) == (i - 1) * Len(f.cols) + j

\* the cells of row i as DataFrame cells: a dict becomes a heap object
Cells(f, i) ==
    [j \in 1..Len(f.cols) |->
        IF f.rows[i][j].t = "dict" THEN Ref(RefId(f, i, j)) ELSE f.rows[i][j]]

\* the frame with its `geometry` column, as read_file / GeoDataFrame build it
Frame(f) ==
    [cols |-> Append(f.cols, GeometryCol),
     rows |-> [i \in 1..Len(f.rows) |-> Append(Cells(f, i), Geometry)]]

HeapOf(f) ==
    LET used == {RefId(f, i, j) : <<i, j>> \in
                    {p \in (1..Len(f.rows)) \X (1..Len(f.cols)) :
                        f.rows[p[1]][p[2]].t = "dict"}}
    IN [id \in used |-> LET p == CHOOSE q \in (1..Len(f.rows)) \X (1..Len(f.cols)) :
                                     RefId(f, q[1], q[2]) = id
                        IN f.rows[p[1]][p[2]]]

\* [col for col in df.columns if 'geom' in col.lower()]
geom_col(f) ==
    SelectSeq(f.cols, LAMBDA col : Contains(Lower(col), <<"g", "e", "o", "m">>))

Init ==
    /\ file \in Files
    /\ pc = "start"
    /\ gdf = EmptyFrame
    /\ heap = << >>
    /\ selected_values = <<>>
    /\ filtered_gdf = <<>>
    /\ count = -1
    /\ split_col = NoName
    /\ todo = <<>>
    /\ subset_copy = <<>>
    /\ rawname = NoName
    /\ filename = NoName
    /\ zf = <<>>
    /\ download = NoBlob
    /\ err = "none"

\* lines 32-33 and 37-38: gpd.read_file
LoadFeatures ==
    /\ pc = "start"
    /\ file.fmt \in {"geojson", "json_fc"}
    /\ gdf' = Frame(file)
    /\ heap' = HeapOf(file)
    /\ pc' = "loaded"
    /\ UNCHANGED <<file, selected_values, filtered_gdf, count, split_col, todo,
                   subset_copy, rawname, filename, zf, download, err>>

\* lines 39-50: a JSON list of objects or a single JSON object
LoadJson ==
    /\ pc = "start"
    /\ file.fmt \in {"json_list", "json_obj"}
    /\ IF geom_col(file) # <<>>
       THEN /\ gdf' = Frame(file)
            /\ heap' = HeapOf(file)
            /\ pc' = "loaded"
            /\ err' = err
       ELSE \* st.error(...); st.stop()
            /\ err' = "No geometry column found in JSON data"
            /\ pc' = "stopped"
            /\ UNCHANGED <<gdf, heap>>
    /\ UNCHANGED <<file, selected_values, filtered_gdf, count, split_col, todo,
                   subset_copy, rawname, filename, zf, download>>

\* lines 51-54 and 192-193: a CSV; [...][0] raises IndexError on an empty list
LoadCsv ==
    /\ pc = "start"
    /\ file.fmt = "csv"
    /\ IF geom_col(file) # <<>>
       THEN /\ gdf' = Frame(file)
            /\ heap' = HeapOf(file)
            /\ pc' = "loaded"
            /\ err' = err
       ELSE /\ err' = "Error processing file: list index out of range"
            /\ pc' = "error"
            /\ UNCHANGED <<gdf, heap>>
    /\ UNCHANGED <<file, selected_values, filtered_gdf, count, split_col, todo,
                   subset_copy, rawname, filename, zf, download>>

----------------------------------------------------------------------------
(* Filter section, lines 60-126 *)

FilterableDtypes == {"object", "int64", "float64", "bool"}

\* lines 61-62
non_geom_cols(g) ==
    SelectSeq(g.cols, LAMBDA col :
        col # GeometryCol
        /\ Dtype(Column(g.rows, ColIndex(g.cols, col))) \in FilterableDtypes)

\* the possible contents of selected_values for the chosen filter columns:
\* each multiselect returns distinct options of its column, in selection order
RECURSIVE Selections(_, _)
Selections(g, filter_cols) ==
    IF filter_cols = <<>> THEN {<<>>}
    ELSE {<<[col |-> Head(filter_cols), vals |-> vs]>> \o rest :
            vs \in Picks(Options(g.rows, ColIndex(g.cols, Head(filter_cols)))),
            rest \in Selections(g, Tail(filter_cols))}

\* line 123: filtered_gdf[filtered_gdf[col].isin(vals)]
KeepIsIn(rows, j, vals) == SelectSeq(rows, LAMBDA row : IsIn(row[j], vals))

\* lines 120-123
RECURSIVE ApplyFilters(_, _, _)
ApplyFilters(rows, cols, sel) ==
    IF sel = <<>> THEN rows
    ELSE ApplyFilters(
            IF Head(sel).vals # <<>>
            THEN KeepIsIn(rows, ColIndex(cols, Head(sel).col), Head(sel).vals)
            ELSE rows,
            cols, Tail(sel))

\* lines 60-126 with every selected column's options computable
Filter ==
    /\ pc = "loaded"
    /\ \E filter_cols \in Picks(Range(non_geom_cols(gdf))) :
          /\ \A i \in 1..Len(filter_cols) :
                Hashable(Column(gdf.rows, ColIndex(gdf.cols, filter_cols[i])))
          /\ \E sel \in Selections(gdf, filter_cols) :
                /\ selected_values' = sel
                /\ filtered_gdf' = ApplyFilters(gdf.rows, gdf.cols, sel)
                /\ count' = Len(filtered_gdf')
    /\ pc' = "filtered"
    /\ UNCHANGED <<file, gdf, heap, split_col, todo, subset_copy, rawname,
                   filename, zf, download, err>>

\* lines 86/104 and 192-193: unique() of a column holding dicts raises TypeError
FilterError ==
    /\ pc = "loaded"
    /\ \E col \in Range(non_geom_cols(gdf)) :
          ~Hashable(Column(gdf.rows, ColIndex(gdf.cols, col)))
    /\ err' = "Error processing file: unhashable type: 'dict'"
    /\ pc' = "error"
    /\ UNCHANGED <<file, gdf, heap, selected_values, filtered_gdf, count, split_col,
                   todo, subset_copy, rawname, filename, zf, download>>

----------------------------------------------------------------------------
(* Export section, lines 128-190 *)

\* variant of ExportOffered: the guard written as >= 0
ExportOfferedAlways(rows) == Len(rows) >= 0

\* line 129
ExportOffered(rows) == Len(rows) > 0

\* line 144: filtered_gdf[filtered_gdf[split_col] == value]
Subset(rows, j, value) == SelectSeq(rows, LAMBDA row : PyEq(row[j], value))

\* lines 148-149: datetime64[ns] columns become strings in the copy
AsTypeStr(cell) ==
    IF cell.t = "ts" THEN StrV(DateStr(cell.v)) ELSE StrV(<<"N", "a", "T">>)

DatetimeToStr(g, rows) ==
    [i \in 1..Len(rows) |->
        [j \in 1..Len(g.cols) |->
            IF Dtype(Column(g.rows, j)) = "datetime64[ns]"
            THEN AsTypeStr(rows[i][j])
            ELSE rows[i][j]]]

\* line 153: isinstance(subset_copy[col].iloc[0], dict)
FirstIsDict(rows, j) == rows[1][j].t = "ref"

\* lines 152-156: the dict objects handed to convert_timestamps_in_properties
Converted(rows) ==
    {rows[i][j].v : <<i, j>> \in
        {p \in (1..Len(rows)) \X (1..Len(rows[1])) :
            FirstIsDict(rows, p[2]) /\ rows[p[1]][p[2]].t = "ref"}}

\* variant of filter_info: the `if vals` test of line 161 left out
RECURSIVE filter_info_unguarded(_)
filter_info_unguarded(sel) ==
    IF sel = <<>> THEN <<>>
    ELSE <<Head(sel).col \o <<"-">>
           \o Join(<<"_">>, [i \in 1..Len(Head(sel).vals) |-> StrOf(Head(sel).vals[i])])>>
         \o filter_info_unguarded(Tail(sel))

\* lines 159-163
RECURSIVE filter_info(_)
filter_info(sel) ==
    IF sel = <<>> THEN <<>>
    ELSE (IF Head(sel).vals # <<>>
          THEN <<Head(sel).col \o <<"-">>
                 \o Join(<<"_">>, [i \in 1..Len(Head(sel).vals) |-> StrOf(Head(sel).vals[i])])>>
          ELSE <<>>)
         \o filter_info(Tail(sel))

Extension == <<".", "g", "e", "o", "j", "s", "o", "n">>
FiltersTag == <<"_", "_", "f", "i", "l", "t", "e", "r", "s", "_", "_">>

\* lines 166-169
Filename(col, value, sel) ==
    IF filter_info(sel) # <<>>
    THEN col \o <<"-">> \o StrOf(value) \o FiltersTag
         \o Join(<<"-">>, filter_info(sel)) \o Extension
    ELSE col \o <<"-">> \o StrOf(value) \o Extension

\* variant of Clean: the backslash replacement of line 173 left out
CleanNoBackslash(name) ==
    Replace(Replace(Replace(Replace(name,
        "/", <<"_">>), " ", <<"_">>), "\"", <<>>), "'", <<>>)

\* lines 172-176
Clean(name) ==
    Replace(Replace(Replace(Replace(Replace(name,
        "/", <<"_">>), "\\", <<"_">>), " ", <<"_">>), "\"", <<>>), "'", <<>>)

\* json.dumps has no encoding for Timestamp objects: to_json raises TypeError
Serializable(rows) ==
    \A i \in 1..Len(rows) : \A j \in 1..Len(rows[i]) : ~HasTimestamp(rows[i][j])

\* line 179: the FeatureCollection of the rows
to_json(cols, rows) ==
    [type |-> "FeatureCollection",
     features |-> [i \in 1..Len(rows) |->
        [type |-> "Feature",
         geometry |-> rows[i][ColIndex(cols, GeometryCol)],
         properties |-> [j \in 1..(Len(cols) - 1) |-> <<cols[j], rows[i][j]>>]]]]

\* lines 128-129: nothing is offered for an empty filtered table
ExportSkipped ==
    /\ pc = "filtered"
    /\ ~ExportOffered(filtered_gdf)
    /\ pc' = "end"
    /\ UNCHANGED <<file, gdf, heap, selected_values, filtered_gdf, count, split_col,
                   todo, subset_copy, rawname, filename, zf, download, err>>

\* lines 129-139: the section is shown and the button is not pressed
ExportIdle ==
    /\ pc = "filtered"
    /\ ExportOffered(filtered_gdf)
    /\ \E col \in Range(non_geom_cols(gdf)) : split_col' = col
    /\ pc' = "end"
    /\ UNCHANGED <<file, gdf, heap, selected_values, filtered_gdf, count,
                   todo, subset_copy, rawname, filename, zf, download, err>>

\* lines 129-143: the button is pressed; the archive is opened and the loop's
\* values are computed (unique() raises TypeError on a column of dicts)
ExportPressed ==
    /\ pc = "filtered"
    /\ ExportOffered(filtered_gdf)
    /\ \E col \in Range(non_geom_cols(gdf)) :
          LET cells == Column(filtered_gdf, ColIndex(gdf.cols, col)) IN
          /\ split_col' = col
          /\ zf' = <<>>
          /\ IF Hashable(cells)
             THEN /\ todo' = Unique(cells)
                  /\ pc' = "exporting"
                  /\ err' = err
             ELSE /\ todo' = todo
                  /\ pc' = "error"
                  /\ err' = "Error processing file: unhashable type: 'dict'"
    /\ UNCHANGED <<file, gdf, heap, selected_values, filtered_gdf, count,
                   subset_copy, rawname, filename, download>>

\* lines 143-182: one turn of the loop
ExportValue ==
    /\ pc = "exporting"
    /\ todo # <<>>
    /\ LET value == Head(todo)
           subset == Subset(filtered_gdf, ColIndex(gdf.cols, split_col), value)
           copy == DatetimeToStr(gdf, subset)
       IN IF subset = <<>>
          THEN \* line 153: iloc[0] of an empty column raises IndexError
               /\ subset_copy' = copy
               /\ err' = "Error processing file: single positional indexer is out-of-bounds"
               /\ pc' = "error"
               /\ UNCHANGED <<heap, rawname, filename, zf, todo>>
          ELSE /\ subset_copy' = copy
               /\ heap' = [id \in DOMAIN heap |->
                             IF id \in Converted(copy)
                             THEN convert_timestamps_in_properties(heap[id])
                             ELSE heap[id]]
               /\ rawname' = Filename(split_col, value, selected_values)
               /\ filename' = Clean(rawname')
               /\ IF Serializable(View(copy, heap'))
                  THEN /\ zf' = Append(zf, [name |-> filename',
                                            data |-> to_json(gdf.cols, View(copy, heap'))])
                       /\ todo' = Tail(todo)
                       /\ UNCHANGED <<pc, err>>
                  ELSE /\ err' = "Error processing file: Object of type Timestamp is not JSON serializable"
                       /\ pc' = "error"
                       /\ UNCHANGED <<zf, todo>>
    /\ UNCHANGED <<file, gdf, selected_values, filtered_gdf, count, split_col, download>>

\* variant of LoopDone: the download button placed inside the loop
LoopDoneAnyTime(values) == TRUE

\* the loop of line 143 has visited every value
LoopDone(values) == values = <<>>

\* lines 184-190: the archive is closed and handed to the download button
Download ==
    /\ pc = "exporting"
    /\ LoopDone(todo)
    /\ download' = <<zf>>
    /\ pc' = "end"
    /\ UNCHANGED <<file, gdf, heap, selected_values, filtered_gdf, count, split_col,
                   todo, subset_copy, rawname, filename, zf, err>>

\* any further interaction runs the script again from the top on the same upload
Rerun ==
    /\ pc \in {"end", "error", "stopped"}
    /\ pc' = "start"
    /\ gdf' = EmptyFrame
    /\ heap' = << >>
    /\ selected_values' = <<>>
    /\ filtered_gdf' = <<>>
    /\ count' = -1
    /\ split_col' = NoName
    /\ todo' = <<>>
    /\ subset_copy' = <<>>
    /\ rawname' = NoName
    /\ filename' = NoName
    /\ zf' = <<>>
    /\ download' = NoBlob
    /\ err' = "none"
    /\ UNCHANGED file

Next ==
    \/ LoadFeatures
    \/ LoadJson
    \/ LoadCsv
    \/ Filter
    \/ FilterError
    \/ ExportSkipped
    \/ ExportIdle
    \/ ExportPressed
    \/ ExportValue
    \/ Download
    \/ Rerun

Spec == Init /\ [][Next]_vars

----------------------------------------------------------------------------
(* Properties *)

Forbidden == {"/", "\\", " ", "\"", "'"}

SplitIndex == ColIndex(gdf.cols, split_col)

\* the filter section has run
Filtered == count # -1

\* the entries of selected_values with a non-empty value list
Constrained == SelectSeq(selected_values, LAMBDA e : e.vals # <<>>)

\* the row satisfies every constrained column of selected_values
Allowed(row) ==
    \A n \in 1..Len(selected_values) :
        selected_values[n].vals = <<>>
        \/ row[ColIndex(gdf.cols, selected_values[n].col)] \in Range(selected_values[n].vals)

\* C1: after the filter step, filtered_gdf is exactly the subsequence of the
\* table's rows, in their original order, whose value in every column with a
\* non-empty allowed list is one of the allowed values; with no constrained
\* column it is the whole table.  The reported count is its length.
C1_FilterExact ==
    Filtered =>
        /\ filtered_gdf = SelectSeq(gdf.rows, Allowed)
        /\ (Constrained = <<>> => filtered_gdf = gdf.rows)
        /\ count = Len(filtered_gdf)

\* two columns are constrained, one of them by two values, and the filter
\* kept one row and dropped another
C1_Witness ==
    /\ Filtered
    /\ Len(Constrained) = 2
    /\ \E n \in 1..2 : Len(Constrained[n].vals) = 2
    /\ Len(filtered_gdf) = 1
    /\ Len(gdf.rows) = 2

\* the positions of filtered_gdf whose split-column value equals value
PartitionOf(value) ==
    {i \in 1..Len(filtered_gdf) : PyEq(filtered_gdf[i][SplitIndex], value)}

\* C2: while an export runs, the partitions of the loop's values are non-empty,
\* pairwise disjoint and together hold every row of the filtered table,
\* rows with a null split value included.
C2_PartitionsCover ==
    pc = "exporting" =>
        LET values == Unique(Column(filtered_gdf, SplitIndex)) IN
        /\ \A n \in 1..Len(values) : PartitionOf(values[n]) # {}
        /\ \A n, m \in 1..Len(values) :
              n # m => PartitionOf(values[n]) \cap PartitionOf(values[m]) = {}
        /\ UNION {PartitionOf(values[n]) : n \in 1..Len(values)} = 1..Len(filtered_gdf)

\* C3: the members written to one archive have pairwise distinct names.
C3_DistinctNames ==
    \A n, m \in 1..Len(zf) : n # m => zf[n].name # zf[m].name

\* C4: with an empty filtered table the count shown is 0, the export loop is
\* not entered, nothing is written or offered for download and no error is
\* reported.
C4_EmptyNotExported ==
    (Filtered /\ filtered_gdf = <<>>) =>
        /\ count = 0
        /\ pc \in {"filtered", "end"}
        /\ todo = <<>>
        /\ subset_copy = <<>>
        /\ zf = <<>>
        /\ download = NoBlob
        /\ err = "none"

\* a run ended on an empty filtered table of a non-empty loaded table
C4_Witness ==
    /\ Filtered
    /\ filtered_gdf = <<>>
    /\ gdf.rows # <<>>
    /\ pc = "end"

Tabular == file.fmt \in {"json_list", "json_obj", "csv"}

\* C5: a tabular input without a column named *geom* fails with the
\* no-geometry-column error, whatever its format, and no later step runs.
C5_NoGeometryColumn ==
    (Tabular /\ geom_col(file) = <<>> /\ pc # "start") =>
        /\ err = "No geometry column found in JSON data"
        /\ gdf = EmptyFrame
        /\ ~Filtered
        /\ download = NoBlob

\* C6: after the conversions of the export loop no timestamp is left in
\* subset_copy, at any depth.
C6_NoTimestampLeft ==
    \A i \in 1..Len(subset_copy) : \A j \in 1..Len(subset_copy[i]) :
        ~HasTimestamp(Deref(subset_copy[i][j], heap))

\* C7: a blob is handed to the download button only by a run without error,
\* and then it holds one member per value of the split column, in loop order;
\* a run that reported an error handed over nothing.
C7_AllOrNothing ==
    /\ err # "none" => download = NoBlob
    /\ download # NoBlob =>
          LET values == Unique(Column(filtered_gdf, SplitIndex)) IN
          /\ err = "none"
          /\ download = <<zf>>
          /\ Len(download[1]) = Len(values)
          /\ \A n \in 1..Len(values) :
                Len(download[1][n].data.features) = Cardinality(PartitionOf(values[n]))

\* an error stopped the loop after a member had been written
C7_Witness ==
    /\ pc = "error"
    /\ zf # <<>>
    /\ todo # <<>>
    /\ download = NoBlob

\* the name with '/', '\' and ' ' turned into '_' and both quotes dropped
Sanitized(name) ==
    LET kept == SelectSeq(name, LAMBDA ch : ch \notin {"\"", "'"})
    IN [n \in 1..Len(kept) |-> IF kept[n] \in {"/", "\\", " "} THEN "_" ELSE kept[n]]

\* C8: no member name holds '/', '\', a space or a quote character, and the
\* cleaned name is the whole derived name with '/', '\' and ' ' replaced by
\* '_' and the quote characters removed.
C8_CleanNames ==
    /\ \A n \in 1..Len(zf) : Range(zf[n].name) \cap Forbidden = {}
    /\ Range(filename) \cap Forbidden = {}
    /\ filename = Sanitized(rawname)

\* a member was written whose derived name held all five characters
C8_Witness ==
    /\ zf # <<>>
    /\ zf[Len(zf)].name = filename
    /\ Forbidden \subseteq Range(rawname)

\* the parts with sep after each but the last
RECURSIVE Interleave(_, _)
Interleave(sep, parts) ==
    IF Len(parts) <= 1 THEN parts
    ELSE <<parts[1], sep>> \o Interleave(sep, Tail(parts))

RECURSIVE Flatten(_)
Flatten(parts) ==
    IF parts = <<>> THEN <<>>
    ELSE Flatten(SubSeq(parts, 1, Len(parts) - 1)) \o parts[Len(parts)]

Segment(e) ==
    e.col \o <<"-">>
    \o Flatten(Interleave(<<"_">>, [n \in 1..Len(e.vals) |-> StrOf(e.vals[n])]))

\* "<splitColumn>-<v>[__filters__<segment>-<segment>...].geojson"
DerivedName(value) ==
    split_col \o <<"-">> \o StrOf(value)
    \o (IF Constrained = <<>> THEN <<>>
        ELSE <<"_", "_", "f", "i", "l", "t", "e", "r", "s", "_", "_">>
             \o Flatten(Interleave(<<"-">>,
                    [n \in 1..Len(Constrained) |-> Segment(Constrained[n])])))
    \o <<".", "g", "e", "o", "j", "s", "o", "n">>

\* C9: the name built for the partition of value v, before cleaning, is
\* "<splitColumn>-<v>.geojson" without constrained columns and otherwise
\* carries "__filters__" and one "<column>-<v1>_<v2>..." segment per
\* constrained column, in selection order, joined by "-"; every member of
\* one export carries the same suffix.
C9_DerivedName ==
    /\ (rawname # NoName /\ subset_copy # <<>>) =>
          rawname = DerivedName(subset_copy[1][SplitIndex])
    /\ \A n \in 1..Len(zf) :
          zf[n].name = Sanitized(DerivedName(Unique(Column(filtered_gdf, SplitIndex))[n]))

\* two members were written under a filter with a two-valued column, a
\* single-valued column after it
C9_Witness ==
    /\ Len(zf) = 2
    /\ Len(selected_values) = 2
    /\ Len(selected_values[1].vals) = 2
    /\ Len(selected_values[2].vals) = 1

\* C10: the loaded table keeps the attribute values it had right after
\* loading, nested values included, through every export.
C10_TableUnchanged ==
    gdf # EmptyFrame => View(gdf.rows, heap) = View(Frame(file).rows, HeapOf(file))

====
